---- MODULE Spec2Model ----
(***************************************************************************)
(* A model of the two command-line scripts of the repository:              *)
(*                                                                         *)
(*   archives/batch-processing-old/download-batch-output.py  (the Fetcher) *)
(*   archives/evals/10-13/axial-coding-analysis.py           (the Reporter)*)
(*                                                                         *)
(* One behaviour is one run of one of the two scripts (variable tool).     *)
(* The environment of a run (the process environment, the command line,    *)
(* the output file already on disk, the answers and exceptions of the      *)
(* remote service and of the file system) is chosen nondeterministically.  *)
(* Writes to the console are taken to succeed.                             *)
(*                                                                         *)
(* Python values that may be None are modelled as records with a class     *)
(* field; hasattr(o, a) is membership of a in the record's domain.         *)
(***************************************************************************)
EXTENDS Naturals, Sequences, FiniteSets

VARIABLES
    tool,         \* which script this run executes: "fetcher" or "reporter"
    environ,      \* os.environ after load_dotenv(): a function name -> string
    sys_argv,     \* sys.argv: <<script name, arguments...>>
    disk,         \* the file system: a function path -> sequence of bytes
    disk0,        \* history: the file system when the run started
    pc,           \* position of the script
    batch_name,   \* Fetcher: the job reference
    api_key,      \* Fetcher: local api_key
    client,       \* Fetcher: local client
    batch,        \* Fetcher: local batch (the job metadata)
    file_name,    \* Fetcher: local file_name
    file_data,    \* Fetcher: local file_data
    exc,          \* the exception being propagated or handled, or PyNone
    calls,        \* every call made to the SDK and to the file system, in order
    stdout,       \* the lines printed so far
    result,       \* Fetcher: value returned by download_batch_output
    exit_code,    \* process exit status, PyNone while the process runs
    cat_i,        \* Reporter: index of the current item of axial_code_mapping.items()
    code_i        \* Reporter: index of the current element of codes[:3]

vars == <<tool, environ, sys_argv, disk, disk0, pc, batch_name, api_key, client,
          batch, file_name, file_data, exc, calls, stdout, result, exit_code,
          cat_i, code_i>>

----------------------------------------------------------------------------
(* Bounds of the model *)

MaxArgs == 2
MaxBytes == 2

----------------------------------------------------------------------------
(* Python values *)

PyNone == [class |-> "NoneType"]
Str(s) == [class |-> "str", value |-> s]
Bytes(b) == [class |-> "bytes", value |-> b]
Int(n) == [class |-> "int", value |-> n]

\* Python truth value of an object (used by "if not api_key")
Truthy(v) ==
    CASE v.class = "NoneType" -> FALSE
      [] v.class = "str" -> v.value # ""
      [] v.class = "bytes" -> v.value # <<>>
      [] v.class = "int" -> v.value # 0
      [] OTHER -> TRUE

HasAttr(obj, a) == a \in DOMAIN obj

SeqsUpTo(S, n) == UNION {[1..k -> S] : k \in 0..n}

----------------------------------------------------------------------------
(* The environment of a run of the Fetcher *)

ScriptName == "download-batch-output.py"
\* os.path.abspath(__file__), relative to the repository root
ScriptFile == <<"archives", "batch-processing-old", ScriptName>>

ArgValues == {"batches/job-from-cli", ""}
ByteValues == {0, 255}
JobStates == {"JOB_STATE_SUCCEEDED", "JOB_STATE_RUNNING"}
DisplayNames == {"music-tagger-batch", "retry-batch"}
FileNames == {"files/batch-output-1"}

Environs ==
    {[n \in {} |-> ""]} \cup {[n \in {"GEMINI_API_KEY"} |-> k] : k \in {"", "secret-key"}}

\* The destination descriptors the service may return in batch.dest
Dests ==
    {PyNone, [class |-> "BatchJobDestination"]}
    \cup {[class |-> "BatchJobDestination", file_name |-> f] :
            f \in {PyNone} \cup {Str(n) : n \in FileNames}}

\* The job metadata objects the service may return
Batches ==
    {[class |-> "BatchJob", state |-> s, display_name |-> d] :
        s \in JobStates, d \in DisplayNames}
    \cup {[class |-> "BatchJob", state |-> s, display_name |-> d, dest |-> x] :
        s \in JobStates, d \in DisplayNames, x \in Dests}

----------------------------------------------------------------------------
(* Pure parts of download-batch-output.py *)

DefaultBatchName == "batches/atdpuj01cvry22of15w27crr43vuipp3zypt"

\* variant of SelectBatchName: the script name is not counted (len(sys.argv) > 2)
SelectBatchName_OffByOne(argv) == IF Len(argv) > 2 THEN argv[2] ELSE DefaultBatchName

\* lines 70-73: the default, replaced by sys.argv[1] when len(sys.argv) > 1
\* (Python's sys.argv[0] is argv[1] here, sys.argv[1] is argv[2])
SelectBatchName(argv) == IF Len(argv) > 1 THEN argv[2] ELSE DefaultBatchName

\* os.getenv(name)
GetEnv(env, name) == IF name \in DOMAIN env THEN Str(env[name]) ELSE PyNone

\* variant of CredentialMissing: "if api_key is None"
CredentialMissing_NoneOnly(k) == k = PyNone

\* line 19: if not api_key
CredentialMissing(k) == ~Truthy(k)

\* variant of HasOutputFile: only a succeeded job is downloaded
HasOutputFile_OnlySucceeded(b) ==
    /\ HasAttr(b, "dest") /\ HasAttr(b.dest, "file_name")
    /\ b.state = "JOB_STATE_SUCCEEDED"

\* line 37: hasattr(batch, 'dest') and hasattr(batch.dest, 'file_name')
HasOutputFile(b) == HasAttr(b, "dest") /\ HasAttr(b.dest, "file_name")

\* os.path.dirname and os.path.join on paths held as sequences of components
Dirname(p) == SubSeq(p, 1, Len(p) - 1)
Join(p, a, b) == p \o <<a, b>>

\* lines 46-48
output_path == Join(Dirname(Dirname(ScriptFile)), "outputs", "batch-output.jsonl")

\* isinstance(e, Exception): SystemExit derives from BaseException only
IsException(e) == e.class # "SystemExit"

SystemExit(code) == [class |-> "SystemExit", code |-> code]
Error(class, op) == [class |-> class, op |-> op]

\* variant of OpenWb: open(path, 'ab'), the file keeps what it holds
OpenWb_Append(fs, path) ==
    [p \in DOMAIN fs \cup {path} |-> IF p \in DOMAIN fs THEN fs[p] ELSE <<>>]

\* open(path, 'wb'): the file is created or truncated
OpenWb(fs, path) ==
    [p \in DOMAIN fs \cup {path} |-> IF p = path THEN <<>> ELSE fs[p]]

\* f.write(data) on the file opened at path: the bytes follow what the file holds
WriteBytes(fs, path, data) == [fs EXCEPT ![path] = @ \o data]

\* line 21: sys.exit(1)
ExitNoCredential == SystemExit(1)
\* variant of ExitNoOutputFile: the branch ends the process with status 0
ExitNoOutputFile_Zero == SystemExit(0)
\* line 60: sys.exit(1)
ExitNoOutputFile == SystemExit(1)
\* variant of ExitOnError: the handler ends the process with status 0
ExitOnError_Zero == SystemExit(0)
\* line 66: sys.exit(1)
ExitOnError == SystemExit(1)

----------------------------------------------------------------------------
(* How an exception leaves a statement: caught by the "except Exception"   *)
(* of line 62 when raised inside the try block, otherwise it ends the      *)
(* process (SystemExit with its code, any other with status 1).            *)

Raise(e, in_try) ==
    /\ exc' = e
    /\ IF in_try /\ IsException(e)
       THEN pc' = "except" /\ exit_code' = exit_code
       ELSE /\ pc' = "exited"
            /\ exit_code' = Int(IF e.class = "SystemExit" THEN e.code ELSE 1)

Say(line) == stdout' = Append(stdout, line)

\* the log of calls: the operation, its argument, whether it raised
Call(op, arg, raised) ==
    calls' = Append(calls, [op |-> op, arg |-> arg, raised |-> raised])

----------------------------------------------------------------------------
(* The Fetcher, statement by statement *)

\* lines 68-75: choose the job reference and call download_batch_output
Main ==
    /\ tool = "fetcher" /\ pc = "main"
    /\ batch_name' = SelectBatchName(sys_argv)
    /\ pc' = "getenv"
    /\ UNCHANGED <<tool, environ, sys_argv, disk, disk0, api_key, client, batch,
                   file_name, file_data, exc, calls, stdout, result, exit_code,
                   cat_i, code_i>>

\* lines 18-21: read the credential, exit 1 when it is missing
CheckCredential ==
    /\ tool = "fetcher" /\ pc = "getenv"
    /\ api_key' = GetEnv(environ, "GEMINI_API_KEY")
    /\ IF CredentialMissing(api_key')
       THEN /\ Say([text |-> "Error: GEMINI_API_KEY not found in environment"])
            /\ Raise(ExitNoCredential, FALSE)
       ELSE /\ pc' = "client"
            /\ UNCHANGED <<stdout, exc, exit_code>>
    /\ UNCHANGED <<tool, environ, sys_argv, disk, disk0, batch_name, client, batch,
                   file_name, file_data, calls, result, cat_i, code_i>>

\* lines 24-26: construct the client (outside the try block), print the job
ConstructClient ==
    /\ tool = "fetcher" /\ pc = "client"
    /\ \/ /\ Call("genai.Client", api_key, FALSE)
          /\ client' = [class |-> "Client", api_key |-> api_key]
          /\ Say([text |-> "Retrieving batch job", value |-> batch_name])
          /\ pc' = "get"
          /\ UNCHANGED <<exc, exit_code>>
       \/ /\ Call("genai.Client", api_key, TRUE)
          /\ Raise(Error("ValueError", "genai.Client"), FALSE)
          /\ UNCHANGED <<client, stdout>>
    /\ UNCHANGED <<tool, environ, sys_argv, disk, disk0, batch_name, api_key, batch,
                   file_name, file_data, result, cat_i, code_i>>

\* lines 28-34: request the job metadata, print state and display name
GetBatch ==
    /\ tool = "fetcher" /\ pc = "get"
    /\ \/ /\ Call("batches.get", Str(batch_name), FALSE)
          /\ batch' \in Batches
          /\ stdout' = stdout \o <<[text |-> "Batch job retrieved!"],
                                   [text |-> "State", value |-> batch'.state],
                                   [text |-> "Display name", value |-> batch'.display_name]>>
          /\ pc' = "inspect"
          /\ UNCHANGED <<exc, exit_code>>
       \/ /\ Call("batches.get", Str(batch_name), TRUE)
          /\ Raise(Error("APIError", "batches.get"), TRUE)
          /\ UNCHANGED <<batch, stdout>>
    /\ UNCHANGED <<tool, environ, sys_argv, disk, disk0, batch_name, api_key, client,
                   file_name, file_data, result, cat_i, code_i>>

\* lines 37-42 and 57-60: the destination check and the branch it selects
InspectDest ==
    /\ tool = "fetcher" /\ pc = "inspect"
    /\ IF HasOutputFile(batch)
       THEN /\ file_name' = batch.dest.file_name
            /\ stdout' = stdout \o <<[text |-> "Output file", value |-> file_name'],
                                     [text |-> "Downloading file content..."]>>
            /\ pc' = "download"
            /\ UNCHANGED <<exc, exit_code>>
       ELSE /\ UNCHANGED file_name
            /\ IF HasAttr(batch, "dest")
               THEN /\ stdout' = stdout \o <<[text |-> "No output file found in batch.dest"],
                                             [text |-> "Batch dest", value |-> batch.dest]>>
                    /\ Raise(ExitNoOutputFile, TRUE)
               ELSE \* line 59 reads batch.dest: AttributeError
                    /\ Say([text |-> "No output file found in batch.dest"])
                    /\ Raise(Error("AttributeError", "batch.dest"), TRUE)
    /\ UNCHANGED <<tool, environ, sys_argv, disk, disk0, batch_name, api_key, client,
                   batch, file_data, calls, result, cat_i, code_i>>

\* variant of Download: the output file is opened before the download
Download_TruncatesFirst ==
    /\ tool = "fetcher" /\ pc = "download"
    /\ disk' = OpenWb(disk, output_path)
    /\ \/ /\ Call("files.download", file_name, FALSE)
          /\ \E b \in SeqsUpTo(ByteValues, MaxBytes) : file_data' = Bytes(b)
          /\ pc' = "open"
          /\ UNCHANGED <<exc, exit_code>>
       \/ /\ Call("files.download", file_name, TRUE)
          /\ Raise(Error("APIError", "files.download"), TRUE)
          /\ UNCHANGED file_data
    /\ UNCHANGED <<tool, environ, sys_argv, disk0, batch_name, api_key, client,
                   batch, file_name, stdout, result, cat_i, code_i>>

\* line 43: download the file's bytes
Download ==
    /\ tool = "fetcher" /\ pc = "download"
    /\ \/ /\ Call("files.download", file_name, FALSE)
          /\ \E b \in SeqsUpTo(ByteValues, MaxBytes) : file_data' = Bytes(b)
          /\ pc' = "open"
          /\ UNCHANGED <<exc, exit_code>>
       \/ /\ Call("files.download", file_name, TRUE)
          /\ Raise(Error("APIError", "files.download"), TRUE)
          /\ UNCHANGED file_data
    /\ UNCHANGED <<tool, environ, sys_argv, disk, disk0, batch_name, api_key, client,
                   batch, file_name, stdout, result, cat_i, code_i>>

\* lines 46-49: resolve the output path and open it for binary writing
OpenOutput ==
    /\ tool = "fetcher" /\ pc = "open"
    /\ \/ /\ Call("open", output_path, FALSE)
          /\ disk' = OpenWb(disk, output_path)
          /\ pc' = "write"
          /\ UNCHANGED <<exc, exit_code>>
       \/ /\ Call("open", output_path, TRUE)
          /\ Raise(Error("OSError", "open"), TRUE)
          /\ UNCHANGED disk
    /\ UNCHANGED <<tool, environ, sys_argv, disk0, batch_name, api_key, client, batch,
                   file_name, file_data, stdout, result, cat_i, code_i>>

\* line 50 and the end of the with block: write the bytes and close the file;
\* a failing write leaves a proper prefix of the bytes in the file
WriteOutput ==
    /\ tool = "fetcher" /\ pc = "write"
    /\ \/ /\ Call("write", file_data, FALSE)
          /\ disk' = WriteBytes(disk, output_path, file_data.value)
          /\ pc' = "saved"
          /\ UNCHANGED <<exc, exit_code>>
       \/ /\ Call("write", file_data, TRUE)
          /\ \E k \in 0..(Len(file_data.value) - 1) :
                disk' = WriteBytes(disk, output_path, SubSeq(file_data.value, 1, k))
          /\ Raise(Error("OSError", "write"), TRUE)
    /\ UNCHANGED <<tool, environ, sys_argv, disk0, batch_name, api_key, client, batch,
                   file_name, file_data, stdout, result, cat_i, code_i>>

\* lines 52-56 and the end of the script: report, return the path, exit 0
Saved ==
    /\ tool = "fetcher" /\ pc = "saved"
    /\ stdout' = stdout \o <<[text |-> "Saved successfully!"],
                             [text |-> "File", value |-> output_path],
                             [text |-> "Size", value |-> Len(file_data.value)]>>
    /\ result' = output_path
    /\ pc' = "exited"
    /\ exit_code' = Int(0)
    /\ UNCHANGED <<tool, environ, sys_argv, disk, disk0, batch_name, api_key, client,
                   batch, file_name, file_data, exc, calls, cat_i, code_i>>

\* variant of ExceptHandler: a failed metadata request is tried once more
ExceptHandler_Retry ==
    /\ tool = "fetcher" /\ pc = "except"
    /\ stdout' = stdout \o <<[text |-> "Error", value |-> exc],
                             [text |-> "traceback", value |-> exc]>>
    /\ IF exc.op = "batches.get" /\ Len(calls) < 3
       THEN pc' = "get" /\ UNCHANGED <<exc, exit_code>>
       ELSE Raise(ExitOnError, FALSE)
    /\ UNCHANGED <<tool, environ, sys_argv, disk, disk0, batch_name, api_key, client,
                   batch, file_name, file_data, calls, result, cat_i, code_i>>

\* lines 62-66: print the error and the traceback, exit 1
ExceptHandler ==
    /\ tool = "fetcher" /\ pc = "except"
    /\ stdout' = stdout \o <<[text |-> "Error", value |-> exc],
                             [text |-> "traceback", value |-> exc]>>
    /\ Raise(ExitOnError, FALSE)
    /\ UNCHANGED <<tool, environ, sys_argv, disk, disk0, batch_name, api_key, client,
                   batch, file_name, file_data, calls, result, cat_i, code_i>>

----------------------------------------------------------------------------
(* The Reporter: axial-coding-analysis.py                                  *)
(*                                                                         *)
(* Category names are held as sequences of characters, so that             *)
(* str.upper() is computed; comments are strings, printed as they are.     *)
(* The one non-ASCII character of the comments, U+2013, is written as the  *)
(* six characters \u2013.                                                  *)

\* line 10: "Energy Classification Errors"
Category1 ==
    <<"E", "n", "e", "r", "g", "y", " ", "C", "l", "a", "s", "s", "i", "f", "i", "c", "a", "t", "i", "o", "n", " ", "E", "r", "r", "o", "r", "s">>

\* lines 10-39
Codes1 == <<
    "Energy score is incorrect",
    "should be High instead of Medium.",
    "Energy score is incorrect. Energy should be High because of how upbeat and energetic the song is & medium energy songs are not described as being energetic.",
    "Energy is incorrect \\u2013 should be Very High instead of high.",
    "Energy is off based on how Raina approaches this \\u2013 should be High instead of Medium. That said",
    "this is a tricky one.",
    "Energy is incorrect \\u2013 Energy should be High instead of Medium",
    "Song is described as a club banger but labelled as high energy instead of very high .",
    "Energy is incorrect - should definitely be a very high energy track meant for a club dancefloor.",
    "Energy should be very high \\u2013 if it is being played in stadiums and is an arena rock track",
    "that should be taken into account.",
    "Energy should be very high instead of high",
    "Should be medium energy",
    "only feels like low energy because of the tempo but is a medium energy track",
    "Energy should be very low given there is no movement at all within it and no percussion. If it is on yoga and meditation playlists",
    "usually should be very low.",
    "should be a high energy track given how energetic the chorus is",
    "only feels medium because of tempo",
    "Has a singalong feel to it which should make it high energy at the least",
    "Energy should be medium - more of a groovy track",
    "yes you could dance to it but it is more consistent through the track energy wise.",
    "Energy should be medium - context mentions easy listening which should flag it as medium energy instead of low energy. Can we maybe consider having the reasoning specify why a track is tagged as such?",
    "Energy should be high instead of medium \\u2013 catchy hook and upbeat nature of the song + overall singalong factor should bump it up",
    "Energy should be very low \\u2013 track has no percussion or rhythm",
    "Energy is tricky here but should be a high energy track if you play this loud as it has a dance feel. Context mentions it as such and it should take note of that",
    "should be in very low \\u2013 it even mentions it in the reasoning and should include a review step to make sure. if it's also on relaxation and calming sleep playlists",
    "should be flagged as very low.",
    "Should be tagged as low energy - very dreamy and relaxed as opposed to more upbeat."
>>

\* line 42: "Accessibility Classification Errors"
Category2 ==
    <<"A", "c", "c", "e", "s", "s", "i", "b", "i", "l", "i", "t", "y", " ", "C", "l", "a", "s", "s", "i", "f", "i", "c", "a", "t", "i", "o", "n", " ", "E", "r", "r", "o", "r", "s">>

\* lines 42-48
Codes2 == <<
    "Accessibility is incorrect - should really be a Cheesy song as it is very bubble-gum like and really only has play on the radio",
    "Accessibility score is incorrect \\u2013 should be cheesy instead of commercial. This is an instance where if we had a confidence score and it came back as less than 100%",
    "i would have been fine with this.",
    "Accessibility should also be Cheesy given how widespread the song is. Energy should also be very high given how anthemic the song is. Missed the most accurate subgenre which is also not on the list - 2000s Pop Punk.",
    "Should be cheesy. explicitly became a tik tok song and has one hit wonder status which is in the prompt as well."
>>

\* line 51: "Subgenre Classification Issues"
Category3 ==
    <<"S", "u", "b", "g", "e", "n", "r", "e", " ", "C", "l", "a", "s", "s", "i", "f", "i", "c", "a", "t", "i", "o", "n", " ", "I", "s", "s", "u", "e", "s">>

\* lines 51-93
Codes3 == <<
    "Subgenre suggested was not in the list of provided subgenres.",
    "Did not classify it as the most accurate subgenre: 2000s Indie Rock. It mentions it multiple times in the reasoning but does not decide to classify it as such.",
    "Did not suggest most accurate subgenre description: Pop Dance. Indie Pop would have also been acceptable here.",
    "suggested a subgenre that was not on the list",
    "secondary subgenre was not correct",
    "The sub-genres that were suggested were too literal and did not take into account the wider context.",
    "Suggested EDM Classics as a secondary subgenre which is incorrect since EDM only came about in the 2010s+",
    "Secondary Subgenre suggested is not Indie Electronica",
    "first two values alone are fine.",
    "suggested the same subgenre twice",
    "Secondary subgenre - indie electronica - is incorrectly suggested",
    "Suggests 90s dance even though the song came out in the 2010s",
    "misunderstands what 90s dance or decade specific genres may refer to",
    "labelled song as 90s dance when the song came out in the 2000s",
    "Secondary subgenres suggested are inaccurate",
    "not really an edm song or a hip-hop song.",
    "Suggested a subgenre that was not from the full list",
    "Suggested modern dance but does not really fit the song",
    "Missed the most accurate subgenre - Pop Dance but overall still useful",
    "Suggested EDM Classics which is not accurate",
    "Suggests 2000s dance which is not accurate given that should be only for electronic/house music of the era",
    "best fit subgenre appeared last (2010s pop)",
    "Suggested subgenre that is not in the list of subgenres provided.",
    "Suggested Soft Rock when it is not a soft track by any means",
    "Suggested hip-hop instrumental when the track is not an instrumental track",
    "Missed the best fit subgenre for our use-case which is 2010s Indie Pop.",
    "Should not have suggested Indie Soft Pop in this use-case",
    "does not really make sense here as there are no vocals. curious as to why it did?",
    "Missed best fit subgenres like 2020s Indie Pop and Refined Covers. worth adding a note about covers and where they should be categorized.",
    "Missed best fit subgenre for our intents and purposes which is 2020s Indie Pop.",
    "it feels like the subgenre could also be modern funk too since it is a modern funk track and thats where iwould want this track to be next to all the khruangbin.",
    "Missed key subgenre which is Afro Nu-Disco. It can be Disco Edits but the other two are not a good fit. I would also argue that this is medium energy since it has a very steady beat.",
    "Subgenre should not be instrumental or instrumentally based subgenres as it has a vocal. Neo Soul or Modern Soul would be a much better fit here.",
    "Missed most accurate subgenre which is Jazz Standards",
    "Primary subgenre would be indie pop and it mentions indie soft pop instead. Indie Soft Pop should be defined accordingly",
    "Flagged Jazz & Piano and Funk & Soul Classics as a subgenres which relates to the sample in the song vs. what the actual genre of the song is.",
    "Fails to mention the most relevant subgenre: 2000s Indie Rock \\u2013 it is mentioned in the context and reasoning but does mention it accordingly.",
    "Flags it as funk classics or disco edits when it is neither of them. Would rather it flag it as Disco Classics if anything",
    "Mentions Lounge/Chill Out genre in the reasoning but does not manage to pattern match it which would make it a better fit.",
    "Track should not be flagged as two types of nu-disco - defining the agnostic terms and what they mean should be helpful here.",
    "Would have also liked to see Alternative R&B \\u2013 maybe it's worth defining what that term means?"
>>

\* line 96: "Reasoning & Context Issues"
Category4 ==
    <<"R", "e", "a", "s", "o", "n", "i", "n", "g", " ", "&", " ", "C", "o", "n", "t", "e", "x", "t", " ", "I", "s", "s", "u", "e", "s">>

\* lines 96-102
Codes4 == <<
    "Reasoning suggests very clear hallucination and context dropoff. Energy is very off for this song. Should be classified as High or frankly",
    "even very High. Accessibility should also be Cheesy for this song given widespread radio fame and cultural connotations around it.",
    "Has no percussion or rhythm to it and should be flagged as very low. Reasoning mentions deep listening",
    "non instrusive soundscape",
    "Got this completely correct based off of the title alone but should have flagged it as requires human review given that it was unable to find any context about the song whatsoever"
>>

\* line 105: "Technical Errors"
Category5 ==
    <<"T", "e", "c", "h", "n", "i", "c", "a", "l", " ", "E", "r", "r", "o", "r", "s">>

\* lines 105-111
Codes5 == <<
    "503 error",
    "went ahead with the search even though artist & title were not correctly input",
    "should return error value",
    "503 error due to rate limits",
    "503 rate limit error"
>>

\* line 114: "Needs Review / Ambiguous"
Category6 ==
    <<"N", "e", "e", "d", "s", " ", "R", "e", "v", "i", "e", "w", " ", "/", " ", "A", "m", "b", "i", "g", "u", "o", "u", "s">>

\* lines 114-118
Codes6 == <<
    "Needs further review amongst Raina Team",
    "no issues found.",
    "Flagged it as an instrumental whne it has vocals."
>>

\* lines 7-119: the key/value pairs of the dict display, in source order
MappingLiteral == <<
    <<Category1, Codes1>>,
    <<Category2, Codes2>>,
    <<Category3, Codes3>>,
    <<Category4, Codes4>>,
    <<Category5, Codes5>>,
    <<Category6, Codes6>>
>>

\* Python's dict display: a key that is already present keeps its place and
\* takes the later value
DictSet(d, k, v) ==
    IF \E i \in 1..Len(d) : d[i][1] = k
    THEN [i \in 1..Len(d) |-> IF d[i][1] = k THEN <<k, v>> ELSE d[i]]
    ELSE Append(d, <<k, v>>)

RECURSIVE DictOf(_)
DictOf(pairs) ==
    IF pairs = <<>> THEN <<>>
    ELSE DictSet(DictOf(SubSeq(pairs, 1, Len(pairs) - 1)),
                 pairs[Len(pairs)][1], pairs[Len(pairs)][2])

\* lines 7-119: axial_code_mapping, as the sequence axial_code_mapping.items()
axial_code_mapping == DictOf(MappingLiteral)

LowerCase ==
    <<"a", "b", "c", "d", "e", "f", "g", "h", "i", "j", "k", "l", "m",
      "n", "o", "p", "q", "r", "s", "t", "u", "v", "w", "x", "y", "z">>
UpperCase ==
    <<"A", "B", "C", "D", "E", "F", "G", "H", "I", "J", "K", "L", "M",
      "N", "O", "P", "Q", "R", "S", "T", "U", "V", "W", "X", "Y", "Z">>

UpperChar(c) ==
    IF \E i \in 1..Len(LowerCase) : LowerCase[i] = c
    THEN UpperCase[CHOOSE i \in 1..Len(LowerCase) : LowerCase[i] = c]
    ELSE c

\* str.upper() (line 128)
Upper(s) == [i \in 1..Len(s) |-> UpperChar(s[i])]

\* line 132: the 3 of codes[:3]
SampleLimit == 3
\* lines 122, 124, 129, 135, 137: the 80 of "=" * 80 and "-" * 80
RuleWidth == 80

Min(a, b) == IF a < b THEN a ELSE b

\* codes[:n]
Prefix(codes, n) == SubSeq(codes, 1, Min(n, Len(codes)))

\* variant of Samples: the slice is forgotten
Samples_All(codes) == codes

\* line 132: codes[:3]
Samples(codes) == Prefix(codes, SampleLimit)

Rule(ch) == [kind |-> "rule", char |-> ch, width |-> RuleWidth]
Blank == [kind |-> "blank"]

\* the lines of one category block before its samples (lines 128-131)
BlockHead(category, codes) ==
    <<Blank,
      [kind |-> "header", text |-> Upper(category)],
      Rule("-"),
      [kind |-> "total", value |-> Len(codes)],
      [kind |-> "samples"]>>

\* line 133
SampleLine(code) == [kind |-> "sample", text |-> code]

\* variant of SummaryLine: the count is taken of the samples
SummaryLine_SampleCount(category, codes) ==
    [kind |-> "summary", text |-> category, value |-> Len(Samples(codes))]

\* line 139
SummaryLine(category, codes) ==
    [kind |-> "summary", text |-> category, value |-> Len(codes)]

\* where a for loop over items goes after the body ran for item i of n
AfterItem(i, n, again, done) == IF i < n THEN again ELSE done

\* lines 122-125: the banner; then the first for loop starts
Banner ==
    /\ tool = "reporter" /\ pc = "banner"
    /\ stdout' = stdout \o <<Rule("="),
                             [kind |-> "title", text |-> "PROPOSED AXIAL CODE CATEGORIES"],
                             Rule("="), Blank>>
    /\ cat_i' = 1
    /\ pc' = AfterItem(0, Len(axial_code_mapping), "block", "summary_banner")
    /\ UNCHANGED <<tool, environ, sys_argv, disk, disk0, batch_name, api_key, client,
                   batch, file_name, file_data, exc, calls, result, exit_code, code_i>>

\* lines 127-132: the head of the block of category cat_i; the inner loop starts
Block ==
    /\ tool = "reporter" /\ pc = "block"
    /\ LET category == axial_code_mapping[cat_i][1]
           codes == axial_code_mapping[cat_i][2]
       IN /\ stdout' = stdout \o BlockHead(category, codes)
          /\ code_i' = 1
          /\ IF Len(Samples(codes)) > 0
             THEN pc' = "sample" /\ UNCHANGED cat_i
             ELSE /\ cat_i' = cat_i + 1
                  /\ pc' = AfterItem(cat_i, Len(axial_code_mapping), "block", "summary_banner")
    /\ UNCHANGED <<tool, environ, sys_argv, disk, disk0, batch_name, api_key, client,
                   batch, file_name, file_data, exc, calls, result, exit_code>>

\* lines 132-133: print sample code_i of category cat_i and advance the loops
Sample ==
    /\ tool = "reporter" /\ pc = "sample"
    /\ LET codes == axial_code_mapping[cat_i][2]
       IN /\ Say(SampleLine(Samples(codes)[code_i]))
          /\ IF code_i < Len(Samples(codes))
             THEN code_i' = code_i + 1 /\ UNCHANGED <<pc, cat_i>>
             ELSE /\ code_i' = 0
                  /\ cat_i' = cat_i + 1
                  /\ pc' = AfterItem(cat_i, Len(axial_code_mapping), "block", "summary_banner")
    /\ UNCHANGED <<tool, environ, sys_argv, disk, disk0, batch_name, api_key, client,
                   batch, file_name, file_data, exc, calls, result, exit_code>>

\* the script ends: exit status 0
Finish == pc' = "exited" /\ exit_code' = Int(0)

\* lines 135-137: the summary banner; then the second for loop starts
SummaryBanner ==
    /\ tool = "reporter" /\ pc = "summary_banner"
    /\ stdout' = stdout \o <<Blank, Rule("="),
                             [kind |-> "title", text |-> "CATEGORY SUMMARY"],
                             Rule("=")>>
    /\ cat_i' = 1
    /\ IF Len(axial_code_mapping) > 0
       THEN pc' = "summary" /\ UNCHANGED exit_code
       ELSE Finish
    /\ UNCHANGED <<tool, environ, sys_argv, disk, disk0, batch_name, api_key, client,
                   batch, file_name, file_data, exc, calls, result, code_i>>

\* lines 138-139: the summary line of category cat_i
Summary ==
    /\ tool = "reporter" /\ pc = "summary"
    /\ Say(SummaryLine(axial_code_mapping[cat_i][1], axial_code_mapping[cat_i][2]))
    /\ cat_i' = cat_i + 1
    /\ IF cat_i < Len(axial_code_mapping)
       THEN UNCHANGED <<pc, exit_code>>
       ELSE Finish
    /\ UNCHANGED <<tool, environ, sys_argv, disk, disk0, batch_name, api_key, client,
                   batch, file_name, file_data, exc, calls, result, code_i>>

----------------------------------------------------------------------------

InitFetcher ==
    /\ tool = "fetcher"
    /\ environ \in Environs
    /\ \E args \in SeqsUpTo(ArgValues, MaxArgs) : sys_argv = <<ScriptName>> \o args
    /\ disk \in {[p \in {} |-> <<>>]}
                \cup {[p \in {output_path} |-> c] : c \in SeqsUpTo(ByteValues, MaxBytes)}
    /\ disk0 = disk
    /\ pc = "main"
    /\ batch_name = ""
    /\ api_key = PyNone
    /\ client = PyNone
    /\ batch = PyNone
    /\ file_name = PyNone
    /\ file_data = PyNone
    /\ exc = PyNone
    /\ calls = <<>>
    /\ stdout = <<>>
    /\ result = <<>>
    /\ exit_code = PyNone
    /\ cat_i = 0
    /\ code_i = 0

\* a run of the Reporter: no argument, no environment variable, no file is read
InitReporter ==
    /\ tool = "reporter"
    /\ environ = [n \in {} |-> ""]
    /\ sys_argv = <<"axial-coding-analysis.py">>
    /\ disk = [p \in {} |-> <<>>]
    /\ disk0 = disk
    /\ pc = "banner"
    /\ batch_name = ""
    /\ api_key = PyNone
    /\ client = PyNone
    /\ batch = PyNone
    /\ file_name = PyNone
    /\ file_data = PyNone
    /\ exc = PyNone
    /\ calls = <<>>
    /\ stdout = <<>>
    /\ result = <<>>
    /\ exit_code = PyNone
    /\ cat_i = 0
    /\ code_i = 0

Init == InitFetcher \/ InitReporter

Next ==
    \/ Main
    \/ CheckCredential
    \/ ConstructClient
    \/ GetBatch
    \/ InspectDest
    \/ Download
    \/ OpenOutput
    \/ WriteOutput
    \/ Saved
    \/ ExceptHandler
    \/ Banner
    \/ Block
    \/ Sample
    \/ SummaryBanner
    \/ Summary

Spec == Init /\ [][Next]_vars

----------------------------------------------------------------------------
(* Vocabulary of the properties *)

Fetcher == tool = "fetcher"
Reporter == tool = "reporter"
Exited == pc = "exited"

CallIdx(op) == {i \in 1..Len(calls) : calls[i].op = op}
Made(op) == CallIdx(op) # {}
Returned(op) == \E i \in CallIdx(op) : ~calls[i].raised
Raised(op) == \E i \in CallIdx(op) : calls[i].raised

\* the environment holds a non-empty GEMINI_API_KEY
CredentialPresent ==
    "GEMINI_API_KEY" \in DOMAIN environ /\ environ["GEMINI_API_KEY"] # ""

\* the metadata b carries a destination with a file-name field
DestHasFileName(b) == "dest" \in DOMAIN b /\ "file_name" \in DOMAIN b.dest

\* <project-root>/outputs/batch-output.jsonl, the project root being the parent
\* of the directory that holds the script
ExpectedOutputPath == <<"archives", "outputs", "batch-output.jsonl">>

ExitedNonZero == Exited /\ exit_code.class = "int" /\ exit_code.value # 0

----------------------------------------------------------------------------
(* C1: when GEMINI_API_KEY is absent or empty, the Fetcher never goes past  *)
(* the credential check: it constructs no client, makes no metadata request *)
(* and no download, writes no file, and ends with a non-zero exit status.   *)
C1_NoCredentialNoNetwork ==
    (Fetcher /\ ~CredentialPresent) =>
        /\ calls = <<>>
        /\ client = PyNone
        /\ disk = disk0
        /\ pc \in {"main", "getenv", "exited"}
        /\ Exited => ExitedNonZero

C1_Witness ==
    /\ Fetcher /\ Exited
    /\ "GEMINI_API_KEY" \in DOMAIN environ /\ environ["GEMINI_API_KEY"] = ""
    /\ exit_code = Int(1)
    /\ ExpectedOutputPath \in DOMAIN disk

(* C2: every metadata request carries the first command-line argument when  *)
(* one is given and the built-in default when none is given, unaltered.     *)
C2_JobReferenceFromCommandLine ==
    Fetcher =>
        \A i \in CallIdx("batches.get") :
            calls[i].arg =
                Str(IF Len(sys_argv) >= 2 THEN sys_argv[2]
                    ELSE "batches/atdpuj01cvry22of15w27crr43vuipp3zypt")

C2_Witness ==
    /\ Fetcher /\ Made("batches.get")
    /\ Len(sys_argv) = 2
    /\ calls[2].arg = Str("batches/job-from-cli")

(* C3: when the metadata request returns a destination without a file-name  *)
(* field, no download is requested, the output path is never opened, no     *)
(* file is written, and the process ends with a non-zero exit status.       *)
C3_NoFileNameNoDownload ==
    (Fetcher /\ Returned("batches.get") /\ ~DestHasFileName(batch)) =>
        /\ ~Made("files.download") /\ ~Made("open") /\ ~Made("write")
        /\ disk = disk0
        /\ pc \in {"inspect", "except", "exited"}
        /\ Exited => ExitedNonZero

C3_Witness ==
    /\ Fetcher /\ Exited
    /\ Returned("batches.get")
    /\ "dest" \in DOMAIN batch /\ batch.dest = [class |-> "BatchJobDestination"]
    /\ exit_code = Int(1)

C5_ExitCode ==
    (Fetcher /\ Exited) =>
        /\ exit_code \in {Int(0), Int(1)}
        /\ exit_code = Int(0) <=>
              /\ CredentialPresent
              /\ Returned("batches.get")
              /\ DestHasFileName(batch)
              /\ Returned("files.download")
              /\ Returned("open")
              /\ Returned("write")
              /\ disk[ExpectedOutputPath] = file_data.value

C5_Witness ==
    /\ Fetcher /\ Exited
    /\ Raised("write")
    /\ exit_code = Int(1)

(* C6: nothing is retried: at most one metadata request and at most one     *)
(* download are made, no call follows a call that raised, and after a       *)
(* missing credential, an exception or a missing file-name field the run    *)
(* is in its error exit, with no further call and no further write.         *)
C6_NoRetry ==
    Fetcher =>
        /\ Cardinality(CallIdx("batches.get")) <= 1
        /\ Cardinality(CallIdx("files.download")) <= 1
        /\ \A i \in 1..Len(calls) :
              calls[i].raised =>
                 /\ i = Len(calls)
                 /\ pc \in {"except", "exited"}
                 /\ Exited => exit_code = Int(1)
        /\ (~CredentialPresent /\ pc \notin {"main", "getenv"}) =>
              Exited /\ calls = <<>> /\ disk = disk0
        /\ (batch # PyNone /\ ~DestHasFileName(batch) /\ pc # "inspect") =>
              /\ pc \in {"except", "exited"}
              /\ calls[Len(calls)].op = "batches.get"
              /\ disk = disk0

C6_Witness ==
    /\ Fetcher /\ Exited
    /\ Raised("batches.get")
    /\ Len(calls) = 2
    /\ exit_code = Int(1)

(* C9: the calls of a run are made in the order client, metadata request,   *)
(* download, open, write; the output file is opened only after the download *)
(* has returned; and as long as the file has not been opened (so in every   *)
(* run that fails at the credential check, the metadata request, the        *)
(* destination check or the download) the file system is as it was.         *)
C9_FileUntouchedBeforeDownload ==
    Fetcher =>
        /\ Len(calls) <= 5
        /\ \A i \in 1..Len(calls) :
              calls[i].op =
                 <<"genai.Client", "batches.get", "files.download", "open", "write">>[i]
        /\ Made("open") => Returned("files.download") /\ file_data # PyNone
        /\ ~Made("open") => disk = disk0

C9_Witness ==
    /\ Fetcher /\ Exited
    /\ Raised("files.download")
    /\ ExpectedOutputPath \in DOMAIN disk0
    /\ disk0[ExpectedOutputPath] = <<255, 0>>
    /\ disk = disk0

\* b2 is b with another state label and another display name
Relabelled(b, b2) ==
    /\ DOMAIN b2 = DOMAIN b
    /\ \A f \in DOMAIN b \ {"state", "display_name"} : b2[f] = b[f]

(* C10: what the Fetcher requests, writes and exits with after the metadata *)
(* request is decided by the destination's file-name field and never by the *)
(* job's state or display name: the run is the one every metadata response  *)
(* with other labels and the same destination prescribes (download exactly  *)
(* when that destination carries a file-name, of that file-name; the bytes  *)
(* written are the downloaded ones; exit 0 exactly when download, open and  *)
(* write returned).                                                         *)
C10_LabelsDoNotMatter ==
    (Fetcher /\ Returned("batches.get")) =>
        \A b2 \in Batches :
            Relabelled(batch, b2) =>
                /\ Made("files.download") => DestHasFileName(b2)
                /\ (DestHasFileName(b2) /\ pc \notin {"inspect", "download"}) =>
                      Made("files.download")
                /\ \A i \in CallIdx("files.download") : calls[i].arg = b2.dest.file_name
                /\ Returned("write") => disk[ExpectedOutputPath] = file_data.value
                /\ Exited =>
                      (exit_code = Int(0) <=>
                          /\ DestHasFileName(b2)
                          /\ Returned("files.download")
                          /\ Returned("open")
                          /\ Returned("write"))

C10_Witness ==
    /\ Fetcher /\ Exited
    /\ batch # PyNone
    /\ batch.state = "JOB_STATE_RUNNING"
    /\ Returned("write")
    /\ disk[ExpectedOutputPath] = file_data.value
    /\ file_data.value # <<>>
    /\ exit_code = Int(0)

----------------------------------------------------------------------------
(* Reading the Reporter's output *)

KindIdx(kind) == {i \in 1..Len(stdout) : stdout[i].kind = kind}

\* the n-th smallest element of a set of numbers
Nth(S, n) == CHOOSE x \in S : Cardinality({y \in S : y < x}) = n - 1

\* the lines of one kind, in the order printed
LinesOf(kind) ==
    [n \in 1..Cardinality(KindIdx(kind)) |-> stdout[Nth(KindIdx(kind), n)]]

\* where the summary block starts: its title line
SummaryStart ==
    LET t == {i \in KindIdx("title") : stdout[i].text = "CATEGORY SUMMARY"}
    IN IF t = {} THEN Len(stdout) + 1 ELSE Nth(t, 1)

\* block i runs from its header line to the next header, or to the summary
BlockStart(i) == Nth(KindIdx("header"), i)
BlockEnd(i) ==
    IF i < Cardinality(KindIdx("header")) THEN BlockStart(i + 1) ELSE SummaryStart
InBlock(i, kind) == {j \in KindIdx(kind) : BlockStart(i) < j /\ j < BlockEnd(i)}
BlockLines(i, kind) ==
    [n \in 1..Cardinality(InBlock(i, kind)) |-> stdout[Nth(InBlock(i, kind), n)]]

(* C7: a finished run of the Reporter has printed exactly six category      *)
(* blocks, headed by the six category names in the order the mapping        *)
(* declares them, each holding one count line equal to the length of that   *)
(* category's list, and after the blocks a summary of six lines naming the  *)
(* same categories in the same order, each with its block's count.          *)
C7_SixBlocksAndSummary ==
    (Reporter /\ Exited) =>
        /\ Len(MappingLiteral) = 6
        /\ Cardinality(KindIdx("header")) = 6
        /\ Cardinality(KindIdx("total")) = 6
        /\ Cardinality(KindIdx("summary")) = 6
        /\ \A j \in KindIdx("summary") : j > SummaryStart
        /\ \A j \in KindIdx("header") \cup KindIdx("total") \cup KindIdx("sample") :
              j < SummaryStart
        /\ \A i \in 1..6 :
              /\ LinesOf("header")[i].text = Upper(MappingLiteral[i][1])
              /\ Len(BlockLines(i, "total")) = 1
              /\ BlockLines(i, "total")[1].value = Len(MappingLiteral[i][2])
              /\ LinesOf("summary")[i].text = MappingLiteral[i][1]
              /\ LinesOf("summary")[i].value = BlockLines(i, "total")[1].value

C7_Witness ==
    /\ Reporter /\ Exited
    /\ exit_code = Int(0)
    /\ BlockLines(3, "total")[1].value = 41
    /\ stdout[Len(stdout)] = [kind |-> "summary", text |-> Category6, value |-> 3]

(* C8: in a finished run of the Reporter every category block holds         *)
(* min(3, number of comments of the category) sample lines, and they are    *)
(* the first comments of the category's list, verbatim and in list order.   *)
C8_SamplesAreFirstThree ==
    (Reporter /\ Exited) =>
        \A i \in 1..Len(MappingLiteral) :
            LET codes == MappingLiteral[i][2]
                got == BlockLines(i, "sample")
            IN /\ Len(got) = (IF Len(codes) < 3 THEN Len(codes) ELSE 3)
               /\ \A j \in 1..Len(got) : got[j].text = codes[j]

C8_Witness ==
    /\ Reporter /\ Exited
    /\ Len(Codes1) = 28
    /\ Len(BlockLines(1, "sample")) = 3
    /\ BlockLines(1, "sample")[3].text = Codes1[3]
    /\ Len(BlockLines(6, "sample")) = Len(Codes6)

====
